---------------------------- MODULE Spec2Model ----------------------------
(***************************************************************************)
(* A model of autolysis.py: the profiling run analyze_and_generate_output  *)
(* over a loaded table, with its analysis steps basic_analysis,            *)
(* outlier_detection, generate_correlation_matrix, dbscan_clustering and   *)
(* hierarchical_clustering, followed by get_ai_story and save_readme.      *)
(*                                                                         *)
(* Numbers.  Cells are small integers or NaN (a missing cell); the cells   *)
(* of a text column are the codes of its strings.  Every                   *)
(* quantity the code computes in floating point is kept exact here:        *)
(*   - a quartile q is kept as 4*q, a fence as 8*fence (both integers);    *)
(*   - a standardized cell (x - mean)/std is kept as [num, den2], the      *)
(*     value num/sqrt(den2), with num = n*x - sum and den2 = n*sumsq -     *)
(*     sum^2 (n^2 times the population variance);                          *)
(*   - a Ward distance is kept as its square, a fraction [num, den].      *)
(* On the small integers of the model the floating point results are the   *)
(* exact ones, except for comparisons that are ties in exact arithmetic    *)
(* (a distance exactly equal to eps), which the model decides exactly.     *)
(***************************************************************************)
EXTENDS Integers, Sequences, FiniteSets, TLC

\* ------------------------------------------------------------------ bounds

\* Generic one-column tables have at most MaxRows rows.
MaxRows == 5
\* The program is invoked at most MaxRuns times on the same file.
MaxRuns == 2

\* ------------------------------------------------------- program constants

\* DBSCAN(eps=0.5, min_samples=5): eps = EpsNum / EpsDen.
EpsNum == 1
EpsDen == 2
MinSamples == 5

\* A missing cell (pandas NaN): an integer no value of the model takes.
\* Arithmetic and comparison never read it as a number (see Sub, Less).
NaN == -1000

\* --------------------------------------------------------------- sequences

RECURSIVE SumSeq(_)
SumSeq(s) == IF s = <<>> THEN 0 ELSE Head(s) + SumSeq(Tail(s))

\* The positions of s, in order, that lie in keep.
KeptPositions(n, keep) ==
  SelectSeq([p \in 1..n |-> p], LAMBDA p : p \in keep)

Gather(s, pos) == [i \in 1..Len(pos) |-> s[pos[i]]]

\* ------------------------------------------------------------------ frames

\* A DataFrame: index holds the row labels, columns the named, typed
\* columns; every column has one cell per row.
Column(name, kind, cells) == [name |-> name, kind |-> kind, cells |-> cells]

Frame(index, columns) == [index |-> index, columns |-> columns]

\* pd.read_csv gives the rows the labels 0, 1, 2, ... (RangeIndex).
Table(columns) ==
  Frame([i \in 1..Len(columns[1].cells) |-> i - 1], columns)

NRows(f) == Len(f.index)

ColumnNames(f) == {f.columns[c].name : c \in 1..Len(f.columns)}

ColumnNamed(f, name) ==
  f.columns[CHOOSE c \in 1..Len(f.columns) : f.columns[c].name = name]

\* data.select_dtypes(include=np.number): the numeric columns, in order.
SelectNumeric(f) ==
  Frame(f.index, SelectSeq(f.columns, LAMBDA col : col.kind = "number"))

\* frame.dropna(): a new frame with the rows that hold no NaN, their labels
\* kept.
DropNa(f) ==
  LET keep == {p \in 1..NRows(f) :
                 \A c \in 1..Len(f.columns) : f.columns[c].cells[p] # NaN}
      pos  == KeptPositions(NRows(f), keep)
  IN  Frame(Gather(f.index, pos),
            [c \in 1..Len(f.columns) |->
               Column(f.columns[c].name, f.columns[c].kind,
                      Gather(f.columns[c].cells, pos))])

\* frame[name] = values: the column is appended to this frame.
SetItem(f, name, values) ==
  Frame(f.index, Append(f.columns, Column(name, "number", values)))

\* ------------------------------------------------------------ the inputs

Values == {0, 1, 2}

Cells == Values \cup {NaN}

\* One numeric column x of at most MaxRows cells, each a value or missing.
GenericTables ==
  {Table(<<Column("x", "number", cells)>>) :
     cells \in UNION {[1..n -> Cells] : n \in 0..MaxRows}}

\* The table of the specification's worked example.
AgeScoreTable ==
  Table(<<Column("age", "number", <<20, 21, 22, 200, 23>>),
          Column("score", "number", <<1, 2, 3, 4, 5>>)>>)

\* Two dense groups (around 1 and around 5) that share the border row 3,
\* a far row 10, in an order that reaches the group around 5 first.
BorderTable ==
  Table(<<Column("x", "number", <<3, 4, 5, 5, 5, 2, 1, 1, 1, 10>>)>>)

\* A text column beside two numeric ones, with missing cells in each.  In
\* u the quartiles coincide, so the fences are the value 0 itself; over
\* the rows with no missing number (labels 1, 3, 4) u is constant.
MixedTable ==
  Table(<<Column("name", "object", <<1, NaN, 1, 2, 2, 1>>),
          Column("u", "number", <<0, 0, NaN, 0, 0, 7>>),
          Column("v", "number", <<NaN, 0, 3, 0, 1, NaN>>)>>)

Tables == GenericTables \cup {AgeScoreTable, BorderTable, MixedTable}

\* ------------------------------------------------------- basic_analysis

\* describe(include='all'): the count row (the non-missing cells of each
\* column); isnull().sum(): the missing cells of each column.
CountNonMissing(cells) == Len(SelectSeq(cells, LAMBDA v : v # NaN))

CountMissing(cells) == Len(SelectSeq(cells, LAMBDA v : v = NaN))

basic_analysis(f) ==
  [summary |-> [name \in ColumnNames(f) |->
                  [count |-> CountNonMissing(ColumnNamed(f, name).cells)]],
   missing_values |-> [name \in ColumnNames(f) |->
                         CountMissing(ColumnNamed(f, name).cells)],
   column_info |-> [name \in ColumnNames(f) |-> ColumnNamed(f, name).kind]]

\* ---------------------------------------------------- outlier_detection

\* A variant of QuantileX4 that takes the fractional position to be n*k/4
\* counted from 1; the quartile properties tell the two apart.
QuantileX4OneBased(cells, k) ==
  LET s  == SortSeq(SelectSeq(cells, LAMBDA v : v # NaN),
                    LAMBDA a, b : a < b)
      h  == Len(s) * k
      lo == h \div 4
      r  == h % 4
  IN  IF s = <<>> THEN NaN
      ELSE IF lo = 0 THEN 4 * s[1]
      ELSE IF r = 0 \/ lo >= Len(s) THEN 4 * s[IF lo > Len(s) THEN Len(s) ELSE lo]
      ELSE 4 * s[lo] + r * (s[lo + 1] - s[lo])

\* Series.quantile(k/4), times 4: NaN is skipped, the rest sorted, and the
\* value at the fractional position (n-1)*k/4 (counted from 0) interpolated
\* linearly between its two neighbours.  NaN when no value is left.
QuantileX4(cells, k) ==
  LET s  == SortSeq(SelectSeq(cells, LAMBDA v : v # NaN),
                    LAMBDA a, b : a < b)
      h  == (Len(s) - 1) * k
      lo == (h \div 4) + 1
      r  == h % 4
  IN  IF s = <<>> THEN NaN
      ELSE IF r = 0 THEN 4 * s[lo]
      ELSE 4 * s[lo] + r * (s[lo + 1] - s[lo])

\* Floating point arithmetic and comparison with NaN: an operation on NaN
\* gives NaN, and a comparison with NaN is False.
Sub(a, b) == IF a = NaN \/ b = NaN THEN NaN ELSE a - b

Add(a, b) == IF a = NaN \/ b = NaN THEN NaN ELSE a + b

Mul(k, a) == IF a = NaN THEN NaN ELSE k * a

\* The comparison <=, a variant of Less that admits equality.
LessOrEqual(a, b) == IF a = NaN \/ b = NaN THEN FALSE ELSE a <= b

\* The comparisons < and > of outlier_detection (a > b is Less(b, a)).
Less(a, b) == IF a = NaN \/ b = NaN THEN FALSE ELSE a < b

\* Q1, Q3 (times 4) and the fences Q1 - 1.5*IQR, Q3 + 1.5*IQR (times 8) of
\* one column.
Quartiles(cells) ==
  LET Q1  == QuantileX4(cells, 1)
      Q3  == QuantileX4(cells, 3)
      IQR == Sub(Q3, Q1)
  IN  [Q1x4 |-> Q1, Q3x4 |-> Q3, IQRx4 |-> IQR,
       lowx8  |-> Sub(Mul(2, Q1), Mul(3, IQR)),
       highx8 |-> Add(Mul(2, Q3), Mul(3, IQR))]

\* ((numeric_data < low) | (numeric_data > high)).sum() for one column.
OutlierCount(cells) ==
  LET q == Quartiles(cells)
  IN  Len(SelectSeq(cells, LAMBDA v : \/ Less(Mul(8, v), q.lowx8)
                                      \/ Less(q.highx8, Mul(8, v))))

outlier_detection(f) ==
  LET numeric_data == SelectNumeric(f)
  IN  [quartiles |-> [name \in ColumnNames(numeric_data) |->
                        Quartiles(ColumnNamed(numeric_data, name).cells)],
       outliers  |-> [name \in ColumnNames(numeric_data) |->
                        OutlierCount(ColumnNamed(numeric_data, name).cells)]]


\* ------------------------------------------------------- StandardScaler

\* The rows of a frame as a matrix: Observations(f)[i][c] is row i's cell
\* in column c.
Observations(f) ==
  [i \in 1..NRows(f) |-> [c \in 1..Len(f.columns) |-> f.columns[c].cells[i]]]

\* n^2 times the population variance of a column (StandardScaler divides
\* by the population standard deviation, ddof = 0).
VarianceN2(cells) ==
  LET n  == Len(cells)
      S  == SumSeq(cells)
      SS == SumSeq([i \in 1..n |-> cells[i] * cells[i]])
  IN  n * SS - S * S

\* A variant of ScaleDen2 that divides by the standard deviation as it
\* is, zero included.
ScaleDen2NoZeroHandling(n, V) == V

\* The square of (n times the divisor) of a column: the variance term, or,
\* for a column of zero variance, n^2: the scaler replaces a zero scale by
\* 1.0, so the cell becomes (x - mean) / 1.
ScaleDen2(n, V) == IF V = 0 THEN n * n ELSE V

\* StandardScaler().fit_transform(numeric_data): each cell becomes
\* (x - mean)/std of its column over the rows given, kept as the pair
\* [num, den2] for num / sqrt(den2).
fit_transform(f) ==
  LET n == NRows(f)
  IN  [i \in 1..n |->
        [c \in 1..Len(f.columns) |->
           LET cells == f.columns[c].cells
           IN  [num  |-> n * cells[i] - SumSeq(cells),
                den2 |-> ScaleDen2(n, VarianceN2(cells))]]]

\* --------------------------------------------------------------- DBSCAN

\* The squared Euclidean distance of rows i and j of a scaled matrix, as a
\* fraction [num, den]: the sum over the columns of (num_i - num_j)^2/den2.
RECURSIVE SqDistFrom(_, _, _, _)
SqDistFrom(X, i, j, c) ==
  IF c > Len(X[i]) THEN [num |-> 0, den |-> 1]
  ELSE LET rest == SqDistFrom(X, i, j, c + 1)
           d    == X[i][c].num - X[j][c].num
           D    == X[i][c].den2
       IN  [num |-> rest.num * D + d * d * rest.den, den |-> rest.den * D]

SqDist(X, i, j) == SqDistFrom(X, i, j, 1)

\* Row j lies within eps of row i: distance <= eps (radius_neighbors).
WithinEps(X, i, j) ==
  LET d == SqDist(X, i, j)
  IN  d.num * EpsDen * EpsDen <= d.den * EpsNum * EpsNum

\* neighborhoods[i]: the rows within eps of row i, row i among them.
Neighborhoods(X) ==
  [i \in 1..Len(X) |-> {j \in 1..Len(X) : WithinEps(X, i, j)}]

\* A variant of CorePoints that asks for more than min_samples rows.
CorePointsStrict(nb) ==
  {i \in DOMAIN nb : Cardinality(nb[i]) > MinSamples}

\* core_samples: the rows with at least min_samples rows in their
\* neighbourhood (themselves included).
CorePoints(nb) ==
  {i \in DOMAIN nb : Cardinality(nb[i]) >= MinSamples}

\* A variant of VisitOrder whose order changes from one invocation to the
\* next, as the iteration order of an unordered container may.
VisitOrderByInvocation(n, invocation) ==
  [k \in 1..n |-> IF invocation % 2 = 1 THEN k ELSE n + 1 - k]

\* The order in which the labelling loop visits the rows in the given
\* invocation of the program: for i in range(n), whatever the invocation.
VisitOrder(n, invocation) == [k \in 1..n |-> k]

\* The rows one cluster takes: from its seed, every unlabelled row in the
\* neighbourhood of a core row already taken (the stack of dbscan_inner
\* emptied).
RECURSIVE Expand(_, _, _, _)
Expand(nb, core, labels, taken) ==
  LET more == {j \in DOMAIN nb :
                 /\ labels[j] = -1
                 /\ j \notin taken
                 /\ \E p \in taken \cap core : j \in nb[p]}
  IN  IF more = {} THEN taken
      ELSE Expand(nb, core, labels, taken \cup more)

\* dbscan_inner: the rows are visited in order; an unlabelled core row
\* starts the next cluster, which takes everything Expand reaches.
RECURSIVE dbscan_inner(_, _, _, _, _, _)
dbscan_inner(nb, core, order, k, labels, label_num) ==
  IF k > Len(order) THEN labels
  ELSE LET i == order[k]
       IN  IF labels[i] # -1 \/ i \notin core
           THEN dbscan_inner(nb, core, order, k + 1, labels, label_num)
           ELSE LET taken == Expand(nb, core, labels, {i})
                IN  dbscan_inner(nb, core, order, k + 1,
                                 [j \in DOMAIN labels |->
                                    IF j \in taken THEN label_num
                                    ELSE labels[j]],
                                 label_num + 1)

\* DBSCAN(eps=0.5, min_samples=5).fit_predict(X): one label per row, -1
\* for noise.
fit_predict(X, invocation) ==
  LET nb == Neighborhoods(X)
  IN  dbscan_inner(nb, CorePoints(nb), VisitOrder(Len(X), invocation), 1,
                   [i \in 1..Len(X) |-> -1], 0)

\* A variant of SetCluster in which numeric_data shares its storage with
\* the caller's table, so that the new column shows in the table too (NaN
\* in the rows that were dropped).
SetClusterThroughView(table, numeric_data, clusters) ==
  [data |-> Frame(table.index,
                  Append(table.columns,
                         Column("cluster", "number",
                                [p \in 1..NRows(table) |->
                                   IF \E i \in 1..NRows(numeric_data) :
                                        numeric_data.index[i] = table.index[p]
                                   THEN clusters[CHOOSE i \in 1..NRows(numeric_data) :
                                          numeric_data.index[i] = table.index[p]]
                                   ELSE NaN]))),
   numeric_data |-> SetItem(numeric_data, "cluster", clusters)]

\* numeric_data['cluster'] = clusters: the column goes to the frame that
\* select_dtypes(...).dropna() built, an object of its own; the caller's
\* table is another object and stays as it is.
SetCluster(table, numeric_data, clusters) ==
  [data |-> table,
   numeric_data |-> SetItem(numeric_data, "cluster", clusters)]

\* ---------------------------------------------------------- Ward linkage

\* The squared Ward distance of two clusters (sets of rows of obs), a
\* fraction: 2*|A|*|B|/(|A|+|B|) times the squared distance of their
\* centroids.  For two single rows it is their squared distance.
WardDist2(obs, A, B) ==
  LET nA == Cardinality(A)
      nB == Cardinality(B)
      rowsA == KeptPositions(Len(obs), A)
      rowsB == KeptPositions(Len(obs), B)
      diff(c) == nB * SumSeq([k \in 1..nA |-> obs[rowsA[k]][c]])
                 - nA * SumSeq([k \in 1..nB |-> obs[rowsB[k]][c]])
      ncols == Len(obs[1])
  IN  [num |-> 2 * SumSeq([c \in 1..ncols |-> diff(c) * diff(c)]),
       den |-> nA * nB * (nA + nB)]

FracLess(a, b) == a.num * b.den < b.num * a.den

FracLeq(a, b) == a.num * b.den <= b.num * a.den

\* The merges of linkage(obs, 'ward'): the two clusters at the smallest
\* Ward distance are merged until one is left.  Rows have the ids
\* 0..n-1, the cluster of merge number m (from 0) the id n + m.  Among
\* pairs at the same distance the one with the lowest ids goes first
\* (scipy leaves that order to its implementation).
RECURSIVE WardMerges(_, _, _)
WardMerges(obs, active, merges) ==
  IF Cardinality(DOMAIN active) < 2 THEN merges
  ELSE LET ids   == DOMAIN active
           pairs == {pr \in ids \X ids : pr[1] < pr[2]}
           dist  == [pr \in pairs |->
                       WardDist2(obs, active[pr[1]], active[pr[2]])]
           best  == CHOOSE pr \in pairs :
                      \A other \in pairs :
                        \/ FracLess(dist[pr], dist[other])
                        \/ /\ ~FracLess(dist[other], dist[pr])
                           /\ \/ pr[1] < other[1]
                              \/ pr[1] = other[1] /\ pr[2] <= other[2]
           new   == Len(obs) + Len(merges)
           both  == active[best[1]] \cup active[best[2]]
       IN  WardMerges(obs,
                      [id \in (ids \ {best[1], best[2]}) \cup {new} |->
                         IF id = new THEN both ELSE active[id]],
                      Append(merges, [left  |-> best[1], right |-> best[2],
                                      dist2 |-> dist[best],
                                      size  |-> Cardinality(both)]))

linkage(obs) ==
  WardMerges(obs, [id \in 0..(Len(obs) - 1) |-> {id + 1}], <<>>)

\* ------------------------------------------------------------ the state

VARIABLES
  data,          \* the table load_data returned
  pc,            \* the call analyze_and_generate_output makes next, or how it ended
  invocation,    \* which run of the program on this file this is (1, 2, ...)
  analysis,      \* basic_analysis's result
  outliers,      \* outlier_detection's locals (quartiles) and result
  numeric_data,  \* dbscan_clustering's local numeric_data
  scaled_data,   \* dbscan_clustering's local scaled_data
  clusters,      \* dbscan_clustering's local clusters
  link_input,    \* hierarchical_clustering's local numeric_data, given to linkage
  linked,        \* hierarchical_clustering's local linked
  narrative,     \* get_ai_story's result
  events,        \* what the run has computed, written and requested, in order
  previous       \* the labels the previous run on this file gave its rows

vars == <<data, pc, invocation, analysis, outliers, numeric_data, scaled_data,
          clusters, link_input, linked, narrative, events, previous>>

results == <<analysis, outliers, numeric_data, scaled_data, clusters,
             link_input, linked, narrative>>

Computed(what)  == [kind |-> "compute", what |-> what]
MadeDirs        == [kind |-> "makedirs", what |-> "."]
Wrote(what)     == [kind |-> "write", what |-> what]
Requested(what) == [kind |-> "network", what |-> what]

Happened(e) == \E k \in 1..Len(events) : events[k] = e

\* The state analyze_and_generate_output starts from, load_data done.
Init ==
  /\ data \in Tables
  /\ pc = "basic_analysis"
  /\ invocation = 1
  /\ analysis = <<>>
  /\ outliers = <<>>
  /\ numeric_data = <<>>
  /\ scaled_data = <<>>
  /\ clusters = <<>>
  /\ link_input = <<>>
  /\ linked = <<>>
  /\ narrative = ""
  /\ events = <<>>
  /\ previous = [dbscan_ran |-> FALSE, clusters |-> <<>>]

\* analysis = basic_analysis(data)
BasicAnalysis ==
  /\ pc = "basic_analysis"
  /\ analysis' = basic_analysis(data)
  /\ events' = Append(events, Computed("summary"))
  /\ pc' = "outlier_detection"
  /\ UNCHANGED <<data, invocation, outliers, numeric_data, scaled_data,
                 clusters, link_input, linked, narrative, previous>>

\* outliers = outlier_detection(data)
OutlierDetection ==
  /\ pc = "outlier_detection"
  /\ outliers' = outlier_detection(data)
  /\ events' = Append(events, Computed("outliers"))
  /\ pc' = "generate_correlation_matrix"
  /\ UNCHANGED <<data, invocation, analysis, numeric_data, scaled_data,
                 clusters, link_input, linked, narrative, previous>>

\* generate_correlation_matrix(data, "."): the directory is made, the
\* correlations of the numeric columns drawn and the figure saved.  The
\* name data is rebound inside the function only.
GenerateCorrelationMatrix ==
  /\ pc = "generate_correlation_matrix"
  /\ events' = events \o <<MadeDirs, Wrote("correlation_matrix.png")>>
  /\ pc' = "dbscan_clustering"
  /\ UNCHANGED <<data, invocation, results, previous>>

\* dbscan_clustering(data, "."): StandardScaler raises ValueError on a
\* matrix of no rows, which nothing catches; otherwise the rows are
\* scaled, labelled and plotted.
DbscanClustering ==
  /\ pc = "dbscan_clustering"
  /\ LET dropped == DropNa(SelectNumeric(data))
     IN  IF NRows(dropped) = 0
         THEN /\ numeric_data' = dropped
              /\ events' = Append(events, MadeDirs)
              /\ pc' = "raised"
              /\ UNCHANGED <<data, scaled_data, clusters>>
         ELSE LET X      == fit_transform(dropped)
                  labels == fit_predict(X, invocation)
                  after  == SetCluster(data, dropped, labels)
              IN  /\ scaled_data' = X
                  /\ clusters' = labels
                  /\ numeric_data' = after.numeric_data
                  /\ data' = after.data
                  /\ events' = events \o <<MadeDirs, Computed("clusters"),
                                           Wrote("dbscan_clusters.png")>>
                  /\ pc' = "hierarchical_clustering"
  /\ UNCHANGED <<invocation, analysis, outliers, link_input, linked,
                 narrative, previous>>

\* hierarchical_clustering(data, "."): the rows without NaN go to linkage
\* as they are; linkage raises ValueError on fewer than two rows, which
\* nothing catches; otherwise the tree is drawn and saved.
HierarchicalClustering ==
  /\ pc = "hierarchical_clustering"
  /\ LET dropped == DropNa(SelectNumeric(data))
     IN  /\ link_input' = dropped
         /\ IF NRows(dropped) < 2
            THEN /\ events' = Append(events, MadeDirs)
                 /\ pc' = "raised"
                 /\ UNCHANGED linked
            ELSE /\ linked' = linkage(Observations(dropped))
                 /\ events' = events \o <<MadeDirs, Computed("linkage"),
                                          Wrote("hierarchical_clustering.png")>>
                 /\ pc' = "get_ai_story"
  /\ UNCHANGED <<data, invocation, analysis, outliers, numeric_data,
                 scaled_data, clusters, narrative, previous>>

\* get_ai_story(...): the request is posted; the service answers with the
\* story, or the request fails and the program exits.
GetAiStory ==
  /\ pc = "get_ai_story"
  /\ events' = Append(events, Requested("chat/completions"))
  /\ \E answered \in BOOLEAN :
       IF answered
       THEN narrative' = "story" /\ pc' = "save_readme"
       ELSE narrative' = narrative /\ pc' = "exited"
  /\ UNCHANGED <<data, invocation, analysis, outliers, numeric_data,
                 scaled_data, clusters, link_input, linked, previous>>

\* save_readme(...): README.md is written, or the write fails and the
\* program exits.
SaveReadme ==
  /\ pc = "save_readme"
  /\ \E written \in BOOLEAN :
       IF written
       THEN events' = Append(events, Wrote("README.md")) /\ pc' = "returned"
       ELSE events' = events /\ pc' = "exited"
  /\ UNCHANGED <<data, invocation, results, previous>>

\* The program is run again on the same file: a new process, which loads
\* the same table.
RunAgain ==
  /\ pc \in {"returned", "raised", "exited"}
  /\ invocation < MaxRuns
  /\ invocation' = invocation + 1
  /\ previous' = [dbscan_ran |-> Happened(Computed("clusters")),
                  clusters   |-> clusters]
  /\ pc' = "basic_analysis"
  /\ analysis' = <<>>
  /\ outliers' = <<>>
  /\ numeric_data' = <<>>
  /\ scaled_data' = <<>>
  /\ clusters' = <<>>
  /\ link_input' = <<>>
  /\ linked' = <<>>
  /\ narrative' = ""
  /\ events' = <<>>
  /\ UNCHANGED data

Next ==
  \/ BasicAnalysis
  \/ OutlierDetection
  \/ GenerateCorrelationMatrix
  \/ DbscanClustering
  \/ HierarchicalClustering
  \/ GetAiStory
  \/ SaveReadme
  \/ RunAgain

Spec == Init /\ [][Next]_vars

\* ------------------------------------------------------------ properties

\* Where the run stands.
OutliersRan == Happened(Computed("outliers"))

DbscanRan == Happened(Computed("clusters"))

DbscanCalled ==
  pc \notin {"basic_analysis", "outlier_detection",
             "generate_correlation_matrix", "dbscan_clustering"}

DbscanRaised == pc = "raised" /\ ~DbscanRan

HierarchicalCalled ==
  \/ pc \in {"get_ai_story", "save_readme", "returned", "exited"}
  \/ pc = "raised" /\ DbscanRan

HierarchicalRaised == pc = "raised" /\ DbscanRan

\* The rows of the table with no missing numeric cell, by position.
RetainedRows ==
  {p \in 1..NRows(data) :
     \A c \in 1..Len(data.columns) :
       data.columns[c].kind = "number" => data.columns[c].cells[p] # NaN}

NumericNames ==
  {data.columns[c].name : c \in {k \in 1..Len(data.columns) :
                                   data.columns[k].kind = "number"}}

\* --- C1

\* The k-th smallest (k from 1) of the non-missing cells, by counting.
PresentCells(cells) == {p \in 1..Len(cells) : cells[p] # NaN}

KthSmallest(cells, k) ==
  CHOOSE v \in {cells[p] : p \in PresentCells(cells)} :
    /\ Cardinality({p \in PresentCells(cells) : cells[p] < v}) < k
    /\ Cardinality({p \in PresentCells(cells) : cells[p] <= v}) >= k

\* 4 times the q/4 quantile by linear interpolation: with n values and
\* position (n-1)*q/4 = lo + r/4, the value (1 - r/4)*x[lo] + (r/4)*x[lo+1].
RefQuantileX4(cells, q) ==
  LET n  == Cardinality(PresentCells(cells))
      lo == ((n - 1) * q) \div 4
      r  == ((n - 1) * q) % 4
  IN  (4 - r) * KthSmallest(cells, lo + 1)
      + (IF r = 0 THEN 0 ELSE r * KthSmallest(cells, lo + 2))

\* The cells the claim calls outliers: present, and strictly outside
\* [Q1 - 1.5*IQR, Q3 + 1.5*IQR] (every term times 8).
RefOutlierCells(cells) ==
  {p \in PresentCells(cells) :
     LET Q1 == RefQuantileX4(cells, 1)
         Q3 == RefQuantileX4(cells, 3)
     IN  \/ 8 * cells[p] < 5 * Q1 - 3 * Q3
         \/ 8 * cells[p] > 5 * Q3 - 3 * Q1}

\* C1: outlier_detection reports, for every numeric column and for those
\* only, the number of cells that are present and strictly below
\* Q1 - 1.5*IQR or strictly above Q3 + 1.5*IQR, Q1 and Q3 the linearly
\* interpolated quartiles of the column's present cells; cells on a fence
\* and missing cells are not counted.
C1_OutlierCountIsStrictIqrRule ==
  OutliersRan =>
    /\ DOMAIN outliers.outliers = NumericNames
    /\ \A name \in NumericNames :
         outliers.outliers[name]
           = Cardinality(RefOutlierCells(ColumnNamed(data, name).cells))

\* A column with a missing cell, cells that lie exactly on a fence and a
\* counted outlier.
C1_Witness ==
  /\ OutliersRan
  /\ \E name \in NumericNames :
       LET cells == ColumnNamed(data, name).cells
           q     == outliers.quartiles[name]
       IN  /\ outliers.outliers[name] >= 1
           /\ \E p \in 1..Len(cells) : cells[p] = NaN
           /\ \E p \in PresentCells(cells) : 8 * cells[p] = q.highx8

\* --- C2

AgeQuartiles == outliers.quartiles["age"]

\* C2 (as stated): on age = [20, 21, 22, 200, 23] the detector computes
\* Q1 = 21, Q3 = 22, IQR = 1, the fences 19.5 and 23.5, and counts 1.
C2_AgeExampleAsStated ==
  (data = AgeScoreTable /\ OutliersRan) =>
    /\ AgeQuartiles.Q1x4 = 4 * 21
    /\ AgeQuartiles.Q3x4 = 4 * 22
    /\ AgeQuartiles.IQRx4 = 4 * 1
    /\ AgeQuartiles.lowx8 = 156
    /\ AgeQuartiles.highx8 = 188
    /\ outliers.outliers["age"] = 1

\* C2 (amended): on age = [20, 21, 22, 200, 23] the detector computes
\* Q1 = 21, Q3 = 23, IQR = 2, the fences 18 and 26, and counts 1 outlier
\* (the value 200).
C2_AgeExample ==
  (data = AgeScoreTable /\ OutliersRan) =>
    /\ AgeQuartiles.Q1x4 = 4 * 21
    /\ AgeQuartiles.Q3x4 = 4 * 23
    /\ AgeQuartiles.IQRx4 = 4 * 2
    /\ AgeQuartiles.lowx8 = 8 * 18
    /\ AgeQuartiles.highx8 = 8 * 26
    /\ outliers.outliers["age"] = 1
    /\ RefOutlierCells(ColumnNamed(data, "age").cells) = {4}

C2_Witness == data = AgeScoreTable /\ OutliersRan /\ pc = "returned"

\* --- C3

\* The number x equals the scaled cell z = num / sqrt(den2).
EqualsScaled(x, z) == x * x * z.den2 = z.num * z.num /\ x * z.num >= 0

\* C3: the matrix hierarchical_clustering gives to linkage is the scaled
\* matrix dbscan_clustering gave to DBSCAN, over the same rows.
C3_LinkageGetsScaledMatrix ==
  Happened(Computed("linkage")) =>
    /\ link_input.index = numeric_data.index
    /\ \A i \in 1..NRows(link_input) :
         \A c \in 1..Len(link_input.columns) :
           EqualsScaled(link_input.columns[c].cells[i], scaled_data[i][c])

\* --- C4

\* C4: with fewer than min_samples + 1 rows left after the rows with a
\* missing numeric cell are dropped (none left included), the density
\* clusterer raises nothing and labels every row left -1.
C4_FewRowsAreAllNoise ==
  (DbscanCalled /\ Cardinality(RetainedRows) < MinSamples + 1) =>
    /\ ~DbscanRaised
    /\ Len(clusters) = Cardinality(RetainedRows)
    /\ \A i \in 1..Len(clusters) : clusters[i] = -1

\* --- C5

IsAnalysis(e) ==
  e.kind = "compute" /\ e.what \in {"summary", "outliers", "clusters", "linkage"}

IsOutput(e) == e.kind \in {"write", "network"}

\* C5: in a run, no file is written and no request sent before the last
\* of the four analysis results has been computed.
C5_OutputOnlyAfterAllAnalyses ==
  \A i \in 1..Len(events) : \A j \in 1..Len(events) :
    (i < j /\ IsOutput(events[i])) => ~IsAnalysis(events[j])

\* --- C6

\* The ids that exist before merge number m (from 1) of a tree over n
\* rows: the rows 0..n-1 and the clusters of the earlier merges.
MergedBefore(tree, m) ==
  {tree[k].left : k \in 1..(m - 1)} \cup {tree[k].right : k \in 1..(m - 1)}

\* C6: over N rows (0 and 1 included) the hierarchical clusterer gives
\* exactly N - 1 merges (none when N < 2), each of two clusters that exist
\* at that point, at distances that never decrease.
C6_MergeTreeShape ==
  HierarchicalCalled =>
    LET N == Cardinality(RetainedRows)
    IN  /\ ~HierarchicalRaised
        /\ Len(linked) = (IF N < 2 THEN 0 ELSE N - 1)
        /\ \A m \in 1..Len(linked) :
             /\ linked[m].left # linked[m].right
             /\ {linked[m].left, linked[m].right}
                  \subseteq (0..(N + m - 2)) \ MergedBefore(linked, m)
        /\ \A m \in 1..(Len(linked) - 1) :
             FracLeq(linked[m].dist2, linked[m + 1].dist2)

\* --- C7

\* The numeric columns whose cells, over the rows dbscan_clustering keeps,
\* are all the same value (at least one row kept).
ConstantColumns ==
  {c \in 1..Len(SelectNumeric(data).columns) :
     /\ RetainedRows # {}
     /\ \A p \in RetainedRows : \A q \in RetainedRows :
          SelectNumeric(data).columns[c].cells[p]
            = SelectNumeric(data).columns[c].cells[q]}

\* C7: for a numeric column whose kept cells are all equal, the scaling
\* does not fail and gives every kept row the value 0 in that column: a
\* zero numerator over a divisor that is not zero.
C7_ConstantColumnScalesToZero ==
  (DbscanCalled /\ ConstantColumns # {}) =>
    /\ DbscanRan
    /\ Len(scaled_data) = Cardinality(RetainedRows)
    /\ \A c \in ConstantColumns : \A i \in 1..Len(scaled_data) :
         scaled_data[i][c].num = 0 /\ scaled_data[i][c].den2 > 0

\* Several rows kept, one column constant, another not.
C7_Witness ==
  /\ DbscanRan
  /\ Cardinality(RetainedRows) >= 2
  /\ ConstantColumns # {}
  /\ ConstantColumns # 1..Len(SelectNumeric(data).columns)

\* --- C8

\* Two labellings of the same rows give the same partition: the same
\* pairs of rows share a label and the same rows are noise.
SamePartition(a, b) ==
  /\ Len(a) = Len(b)
  /\ \A i \in 1..Len(a) : (a[i] = -1) <=> (b[i] = -1)
  /\ \A i \in 1..Len(a) : \A j \in 1..Len(a) :
       (a[i] = a[j]) <=> (b[i] = b[j])

NearRows(i) == {j \in 1..Len(scaled_data) : WithinEps(scaled_data, i, j)}

\* The core rows: at least min_samples rows within eps, the row itself
\* counted.
DenseRows == {i \in 1..Len(scaled_data) : Cardinality(NearRows(i)) >= MinSamples}

\* The core rows a chain of core rows, each within eps of the next, joins
\* to the core rows in S.
RECURSIVE ChainedTo(_)
ChainedTo(S) ==
  LET more == {q \in DenseRows \ S : \E p \in S : q \in NearRows(p)}
  IN  IF more = {} THEN S ELSE ChainedTo(S \cup more)

\* C9: every kept row gets one integer label; the label is -1 exactly for
\* the rows that are not core rows and lie within eps of no core row; two
\* core rows share a label exactly when a chain of core rows joins them.
C9_LabelsFollowDensity ==
  DbscanCalled =>
    /\ Len(clusters) = Cardinality(RetainedRows)
    /\ Len(clusters) = Len(scaled_data)
    /\ \A i \in 1..Len(clusters) :
         /\ clusters[i] \in Int
         /\ clusters[i] >= -1
         /\ (clusters[i] = -1) <=> (NearRows(i) \cap DenseRows = {})
    /\ \A p \in DenseRows : \A q \in DenseRows :
         (clusters[p] = clusters[q]) <=> (q \in ChainedTo({p}))

\* Two clusters, a border row and a noise row in one labelling.
C9_Witness ==
  /\ DbscanRan
  /\ \E p \in DenseRows : \E q \in DenseRows : clusters[p] # clusters[q]
  /\ \E b \in 1..Len(clusters) : b \notin DenseRows /\ clusters[b] # -1
  /\ \E z \in 1..Len(clusters) : clusters[z] = -1

\* --- C10

\* C10: no step of a run changes the table it was given: its columns,
\* rows and cells stay what load_data returned.
C10_TableIsNeverChanged == [][data' = data]_vars

\* Every analysis step has run, and the cluster column is in
\* dbscan_clustering's own frame only.
C10_Witness ==
  /\ Happened(Computed("summary"))
  /\ OutliersRan
  /\ Happened(Wrote("correlation_matrix.png"))
  /\ DbscanRan
  /\ Happened(Computed("linkage"))
  /\ "cluster" \in ColumnNames(numeric_data)
  /\ "cluster" \notin ColumnNames(data)
  /\ NRows(numeric_data) < NRows(data)

=============================================================================
